---- MODULE Spec2Model ----
(***************************************************************************)
(* The CredenceBond contract (contracts/credence_bond/src/lib.rs) as a     *)
(* state machine: the instance storage of the contract, the ledger clock,  *)
(* and one action per entry point.  An entry point is an operator from the *)
(* environment `e` (storage, ledger timestamp, build profile) and its      *)
(* arguments to an outcome; the host commits the storage of a frame that   *)
(* returns and discards the storage writes of a frame that panics.         *)
(***************************************************************************)
EXTENDS Integers, Sequences, FiniteSets, TLC

(***************************************************************************)
(* Bounds of the model.  i128 and u64 are scaled down to small ranges that *)
(* keep their shape (signed, with checked / unchecked overflow).           *)
(***************************************************************************)
I128_MAX == 2
U64_MAX == 3
MaxInnerCalls == 1
MaxCounter == 2

I128_MIN == -I128_MAX - 1
I128_MOD == I128_MAX - I128_MIN + 1

Addr == {"A", "B", "C"}

VARIABLES
    admin,            \* DataKey::Admin
    bond,             \* DataKey::Bond
    config,           \* "config"
    gov_members,      \* "gov_members"
    slash_req,        \* "slash_req"
    fees,             \* "fees"
    locked,           \* "locked"
    callback,         \* "callback"
    now,              \* e.ledger().timestamp()
    overflow_checks,  \* build profile: do unchecked + and += panic on overflow
    pc,               \* "idle", or "callback" while a guarded call is inside invoke_contract
    outer,            \* the guarded call that is inside its callback
    snapshot,         \* storage at the entry of that call (what a panic restores)
    last              \* outcome of the most recent completed call

storage_vars == <<admin, bond, config, gov_members, slash_req, fees, locked, callback>>
vars == <<admin, bond, config, gov_members, slash_req, fees, locked, callback,
          now, overflow_checks, pc, outer, snapshot, last>>

None == [some |-> FALSE]
Some(x) == [some |-> TRUE, v |-> x]

Storage ==
    [admin |-> admin, bond |-> bond, config |-> config, gov_members |-> gov_members,
     slash_req |-> slash_req, fees |-> fees, locked |-> locked, callback |-> callback]

Env == [storage |-> Storage, timestamp |-> now, overflow_checks |-> overflow_checks]


(***************************************************************************)
(* Outcomes of a frame.                                                    *)
(***************************************************************************)
\* returned values, tagged with their Rust type
Unit == [unit |-> TRUE]
IntOf(n) == [int |-> n]
BoolOf(b) == [bool |-> b]
BondOf(b) == [bond |-> b]
StatusOf(x) == [status |-> x]
NoRet == [none |-> TRUE]

Ok(st, ret) == [ok |-> TRUE, err |-> "", ret |-> ret, st |-> st]
Panic(st, msg) == [ok |-> FALSE, err |-> msg, ret |-> NoRet, st |-> st]

(***************************************************************************)
(* Integer arithmetic.                                                     *)
(***************************************************************************)
InI128(x) == I128_MIN <= x /\ x <= I128_MAX
WrapI128(x) == ((x - I128_MIN) % I128_MOD) + I128_MIN
InU64(x) == 0 <= x /\ x <= U64_MAX

checked_add_i128(a, b) == IF InI128(a + b) THEN Some(a + b) ELSE None
checked_sub_i128(a, b) == IF InI128(a - b) THEN Some(a - b) ELSE None
checked_add_u64(a, b) == IF InU64(a + b) THEN Some(a + b) ELSE None
saturating_add_u64(a, b) == IF a + b > U64_MAX THEN U64_MAX ELSE a + b
saturating_sub_u64(a, b) == IF a - b < 0 THEN 0 ELSE a - b

\* `a + b`, `a - b` on i128 written without checked_*: the value when it fits;
\* otherwise a panic under overflow checks and the wrapped value without them.
add_i128(a, b) == [overflow |-> ~InI128(a + b), v |-> WrapI128(a + b)]
sub_i128(a, b) == [overflow |-> ~InI128(a - b), v |-> WrapI128(a - b)]

Contains(vec, x) == \E i \in 1..Len(vec) : vec[i] = x

(***************************************************************************)
(* Reentrancy guard helpers.                                               *)
(***************************************************************************)
\* acquire_lock without the test of the flag
acquire_lock_unchecked(st) == Ok([st EXCEPT !.locked = TRUE], Unit)

acquire_lock(st) ==
    IF st.locked THEN Panic(st, "ReentrancyDetected")
    ELSE Ok([st EXCEPT !.locked = TRUE], Unit)

\* release_lock that leaves the flag set
release_lock_noop(st) == st

release_lock(st) == [st EXCEPT !.locked = FALSE]

check_lock(st) == st.locked

(***************************************************************************)
(* Initialization and configuration.                                       *)
(***************************************************************************)
initialize(e, a) == Ok([e.storage EXCEPT !.admin = Some(a)], Unit)

initialize_with_governance(e, a, required_approvals, governance_members) ==
    Ok([e.storage EXCEPT
            !.admin = Some(a),
            !.config = Some([admin |-> a,
                             required_approvals |-> required_approvals,
                             governance_members |-> governance_members,
                             slash_request_counter |-> 0]),
            !.gov_members = Some(governance_members)],
       Unit)

set_governance_config(e, a, required_approvals, governance_members) ==
    LET st == e.storage IN
    IF ~st.admin.some THEN Panic(st, "NotInitialized")
    ELSE IF a # st.admin.v THEN Panic(st, "NotAdmin")
    ELSE Ok([st EXCEPT
                !.config = Some([admin |-> a,
                                 required_approvals |-> required_approvals,
                                 governance_members |-> governance_members,
                                 slash_request_counter |-> 0]),
                !.gov_members = Some(governance_members)],
            Unit)

set_callback(e, addr) == Ok([e.storage EXCEPT !.callback = Some(addr)], Unit)

(***************************************************************************)
(* Bond lifecycle.                                                         *)
(***************************************************************************)
\* variant: an existing bond is merged into the new one, which keeps its
\* bond_start and its slashed_amount
create_bond_with_rolling_merging(e, identity, amount, duration, is_rolling, notice_period) ==
    LET st == e.storage
        bond_start == IF st.bond.some THEN st.bond.v.bond_start ELSE e.timestamp
    IN  IF ~checked_add_u64(e.timestamp, duration).some THEN Panic(st, "Overflow")
        ELSE LET b == [identity |-> identity,
                       bonded_amount |-> amount,
                       bond_start |-> bond_start,
                       bond_duration |-> duration,
                       slashed_amount |-> IF st.bond.some THEN st.bond.v.slashed_amount ELSE 0,
                       active |-> TRUE,
                       is_rolling |-> is_rolling,
                       withdrawal_requested_at |-> 0,
                       notice_period |-> notice_period]
             IN  Ok([st EXCEPT !.bond = Some(b)], BondOf(b))

create_bond_with_rolling(e, identity, amount, duration, is_rolling, notice_period) ==
    LET st == e.storage
        bond_start == e.timestamp
    IN  IF ~checked_add_u64(bond_start, duration).some THEN Panic(st, "Overflow")
        ELSE LET b == [identity |-> identity,
                       bonded_amount |-> amount,
                       bond_start |-> bond_start,
                       bond_duration |-> duration,
                       slashed_amount |-> 0,
                       active |-> TRUE,
                       is_rolling |-> is_rolling,
                       withdrawal_requested_at |-> 0,
                       notice_period |-> notice_period]
             IN  Ok([st EXCEPT !.bond = Some(b)], BondOf(b))

create_bond(e, identity, amount, duration) ==
    create_bond_with_rolling(e, identity, amount, duration, FALSE, 0)

(***************************************************************************)
(* Slash-request state machine.                                            *)
(***************************************************************************)
is_governance_member(st, address) ==
    LET members == IF st.gov_members.some THEN st.gov_members.v ELSE <<>>
    IN  Contains(members, address)

\* submit_slash_request that refuses to replace a request still in progress
submit_slash_request_guarded(e, requester, identity, amount, reason) ==
    LET st == e.storage IN
    IF ~is_governance_member(st, requester) THEN Panic(st, "NotGovernanceMember")
    ELSE IF ~st.config.some THEN Panic(st, "NoConfig")
    ELSE IF st.slash_req.some /\ st.slash_req.v.status \in {"Pending", "Approved", "Disputed"}
    THEN Panic(st, "InvalidState")
    ELSE LET request_id == st.config.v.slash_request_counter + 1
             cfg == [st.config.v EXCEPT !.slash_request_counter = request_id]
             request == [id |-> request_id,
                         requester |-> requester,
                         identity |-> identity,
                         amount |-> amount,
                         reason |-> reason,
                         status |-> "Pending",
                         approvals |-> <<requester>>,
                         created_at |-> e.timestamp,
                         disputed |-> FALSE,
                         dispute_reason |-> ""]
         IN  Ok([st EXCEPT !.config = Some(cfg), !.slash_req = Some(request)],
                IntOf(request_id))

submit_slash_request(e, requester, identity, amount, reason) ==
    LET st == e.storage IN
    IF ~is_governance_member(st, requester) THEN Panic(st, "NotGovernanceMember")
    ELSE IF ~st.config.some THEN Panic(st, "NoConfig")
    ELSE LET request_id == st.config.v.slash_request_counter + 1
             cfg == [st.config.v EXCEPT !.slash_request_counter = request_id]
             request == [id |-> request_id,
                         requester |-> requester,
                         identity |-> identity,
                         amount |-> amount,
                         reason |-> reason,
                         status |-> "Pending",
                         approvals |-> <<requester>>,
                         created_at |-> e.timestamp,
                         disputed |-> FALSE,
                         dispute_reason |-> ""]
         IN  Ok([st EXCEPT !.config = Some(cfg), !.slash_req = Some(request)],
                IntOf(request_id))

\* approve_slash_request without the duplicate test
approve_slash_request_no_dedup(e, approver) ==
    LET st == e.storage IN
    IF ~is_governance_member(st, approver) THEN Panic(st, "NotGovernanceMember")
    ELSE IF ~st.slash_req.some THEN Panic(st, "NoSlashRequest")
    ELSE LET request == st.slash_req.v IN
         IF request.status # "Pending" THEN Panic(st, "NotPending")
         ELSE LET pushed == [request EXCEPT !.approvals = Append(@, approver)] IN
              IF ~st.config.some THEN Panic(st, "NoConfig")
              ELSE LET updated ==
                           IF Len(pushed.approvals) >= st.config.v.required_approvals
                           THEN [pushed EXCEPT !.status = "Approved"]
                           ELSE pushed
                   IN  Ok([st EXCEPT !.slash_req = Some(updated)],
                          BoolOf(updated.status = "Approved"))

approve_slash_request(e, approver) ==
    LET st == e.storage IN
    IF ~is_governance_member(st, approver) THEN Panic(st, "NotGovernanceMember")
    ELSE IF ~st.slash_req.some THEN Panic(st, "NoSlashRequest")
    ELSE LET request == st.slash_req.v IN
         IF request.status # "Pending" THEN Panic(st, "NotPending")
         ELSE IF Contains(request.approvals, approver) THEN Ok(st, BoolOf(FALSE))
         ELSE LET pushed == [request EXCEPT !.approvals = Append(@, approver)] IN
              IF ~st.config.some THEN Panic(st, "NoConfig")
              ELSE LET updated ==
                           IF Len(pushed.approvals) >= st.config.v.required_approvals
                           THEN [pushed EXCEPT !.status = "Approved"]
                           ELSE pushed
                   IN  Ok([st EXCEPT !.slash_req = Some(updated)],
                          BoolOf(updated.status = "Approved"))

\* execute_slash without the test of the status
execute_slash_any_status(e) ==
    LET st == e.storage IN
    IF ~st.slash_req.some THEN Panic(st, "NoSlashRequest")
    ELSE LET request == st.slash_req.v IN
         IF ~st.bond.some THEN Panic(st, "NoBond")
         ELSE LET b == st.bond.v
                  sum == add_i128(b.slashed_amount, request.amount)
              IN  IF sum.overflow /\ e.overflow_checks
                  THEN Panic(st, "ArithmeticOverflow")
                  ELSE LET slashed ==
                               IF sum.v >= b.bonded_amount
                               THEN [b EXCEPT !.slashed_amount = b.bonded_amount,
                                              !.active = FALSE]
                               ELSE [b EXCEPT !.slashed_amount = sum.v]
                           updated_request == [request EXCEPT !.status = "Executed"]
                       IN  Ok([st EXCEPT !.slash_req = Some(updated_request),
                                         !.bond = Some(slashed)],
                              BondOf(slashed))

\* execute_slash that leaves the request Approved
execute_slash_keeps_status(e) ==
    LET st == e.storage IN
    IF ~st.slash_req.some THEN Panic(st, "NoSlashRequest")
    ELSE LET request == st.slash_req.v IN
         IF request.status # "Approved" THEN Panic(st, "NotApproved")
         ELSE IF ~st.bond.some THEN Panic(st, "NoBond")
         ELSE LET b == st.bond.v
                  sum == add_i128(b.slashed_amount, request.amount)
              IN  IF sum.overflow /\ e.overflow_checks
                  THEN Panic(st, "ArithmeticOverflow")
                  ELSE LET slashed ==
                               IF sum.v >= b.bonded_amount
                               THEN [b EXCEPT !.slashed_amount = b.bonded_amount,
                                              !.active = FALSE]
                               ELSE [b EXCEPT !.slashed_amount = sum.v]
                           updated_request == request
                       IN  Ok([st EXCEPT !.slash_req = Some(updated_request),
                                         !.bond = Some(slashed)],
                              BondOf(slashed))

execute_slash(e) ==
    LET st == e.storage IN
    IF ~st.slash_req.some THEN Panic(st, "NoSlashRequest")
    ELSE LET request == st.slash_req.v IN
         IF request.status # "Approved" THEN Panic(st, "NotApproved")
         ELSE IF ~st.bond.some THEN Panic(st, "NoBond")
         ELSE LET b == st.bond.v
                  sum == add_i128(b.slashed_amount, request.amount)
              IN  IF sum.overflow /\ e.overflow_checks
                  THEN Panic(st, "ArithmeticOverflow")
                  ELSE LET slashed ==
                               IF sum.v >= b.bonded_amount
                               THEN [b EXCEPT !.slashed_amount = b.bonded_amount,
                                              !.active = FALSE]
                               ELSE [b EXCEPT !.slashed_amount = sum.v]
                           updated_request == [request EXCEPT !.status = "Executed"]
                       IN  Ok([st EXCEPT !.slash_req = Some(updated_request),
                                         !.bond = Some(slashed)],
                              BondOf(slashed))

\* reject_slash_request without the test of the status
reject_slash_request_any_status(e) ==
    LET st == e.storage IN
    IF ~st.admin.some THEN Panic(st, "NoAdmin")
    ELSE IF ~st.slash_req.some THEN Panic(st, "NoSlashRequest")
    ELSE Ok([st EXCEPT !.slash_req = Some([st.slash_req.v EXCEPT !.status = "Rejected"])],
            StatusOf("Rejected"))

reject_slash_request(e) ==
    LET st == e.storage IN
    IF ~st.admin.some THEN Panic(st, "NoAdmin")
    ELSE IF ~st.slash_req.some THEN Panic(st, "NoSlashRequest")
    ELSE IF st.slash_req.v.status # "Pending" THEN Panic(st, "NotPending")
    ELSE Ok([st EXCEPT !.slash_req = Some([st.slash_req.v EXCEPT !.status = "Rejected"])],
            StatusOf("Rejected"))

\* dispute_slash_request without the test of the status
dispute_slash_request_any_state(e, disputer, reason) ==
    LET st == e.storage IN
    IF ~is_governance_member(st, disputer) THEN Panic(st, "NotGovernanceMember")
    ELSE IF ~st.slash_req.some THEN Panic(st, "NoSlashRequest")
    ELSE Ok([st EXCEPT !.slash_req =
                Some([st.slash_req.v EXCEPT !.disputed = TRUE,
                                            !.dispute_reason = reason,
                                            !.status = "Disputed"])],
            BoolOf(TRUE))

dispute_slash_request(e, disputer, reason) ==
    LET st == e.storage IN
    IF ~is_governance_member(st, disputer) THEN Panic(st, "NotGovernanceMember")
    ELSE IF ~st.slash_req.some THEN Panic(st, "NoSlashRequest")
    ELSE IF st.slash_req.v.status \notin {"Pending", "Approved"}
         THEN Panic(st, "InvalidState")
    ELSE Ok([st EXCEPT !.slash_req =
                Some([st.slash_req.v EXCEPT !.disputed = TRUE,
                                            !.dispute_reason = reason,
                                            !.status = "Disputed"])],
            BoolOf(TRUE))

\* resolve_dispute that approves without re-evaluating the quorum
resolve_dispute_no_quorum(e, resolve_approved) ==
    LET st == e.storage IN
    IF ~st.slash_req.some THEN Panic(st, "NoSlashRequest")
    ELSE LET request == st.slash_req.v IN
         IF request.status # "Disputed" THEN Panic(st, "NotDisputed")
         ELSE IF resolve_approved /\ ~st.config.some THEN Panic(st, "NoConfig")
         ELSE LET status == IF resolve_approved THEN "Approved" ELSE "Rejected"
              IN  Ok([st EXCEPT !.slash_req =
                         Some([request EXCEPT !.status = status, !.disputed = FALSE])],
                     StatusOf(status))

\* resolve_dispute that leaves the disputed flag set
resolve_dispute_keeps_flag(e, resolve_approved) ==
    LET st == e.storage IN
    IF ~st.slash_req.some THEN Panic(st, "NoSlashRequest")
    ELSE LET request == st.slash_req.v IN
         IF request.status # "Disputed" THEN Panic(st, "NotDisputed")
         ELSE IF resolve_approved /\ ~st.config.some THEN Panic(st, "NoConfig")
         ELSE LET status ==
                      IF resolve_approved
                      THEN IF Len(request.approvals) >= st.config.v.required_approvals
                           THEN "Approved" ELSE "Pending"
                      ELSE "Rejected"
              IN  Ok([st EXCEPT !.slash_req = Some([request EXCEPT !.status = status])],
                     StatusOf(status))

resolve_dispute(e, resolve_approved) ==
    LET st == e.storage IN
    IF ~st.slash_req.some THEN Panic(st, "NoSlashRequest")
    ELSE LET request == st.slash_req.v IN
         IF request.status # "Disputed" THEN Panic(st, "NotDisputed")
         ELSE IF resolve_approved /\ ~st.config.some THEN Panic(st, "NoConfig")
         ELSE LET status ==
                      IF resolve_approved
                      THEN IF Len(request.approvals) >= st.config.v.required_approvals
                           THEN "Approved" ELSE "Pending"
                      ELSE "Rejected"
              IN  Ok([st EXCEPT !.slash_req =
                         Some([request EXCEPT !.status = status, !.disputed = FALSE])],
                     StatusOf(status))

(***************************************************************************)
(* Bond lifecycle, continued.  The tier and penalty notifications of       *)
(* tiered_bond and early_exit_penalty write no storage of the contract.    *)
(***************************************************************************)
withdraw(e, amount) ==
    LET st == e.storage IN
    IF ~st.bond.some THEN Panic(st, "NoBond")
    ELSE LET b == st.bond.v
             available == checked_sub_i128(b.bonded_amount, b.slashed_amount)
         IN  IF ~available.some THEN Panic(st, "InvariantViolation")
             ELSE IF amount > available.v THEN Panic(st, "InsufficientBalance")
             ELSE LET rest == checked_sub_i128(b.bonded_amount, amount) IN
                  IF ~rest.some THEN Panic(st, "Overflow")
                  ELSE IF b.slashed_amount > rest.v THEN Panic(st, "InvariantViolation")
                  ELSE LET nb == [b EXCEPT !.bonded_amount = rest.v]
                       IN  Ok([st EXCEPT !.bond = Some(nb)], BondOf(nb))

\* rolling_bond::is_period_ended and rolling_bond::apply_renewal
is_period_ended(t, bond_start, bond_duration) == t >= bond_start + bond_duration

apply_renewal(b, t) == [b EXCEPT !.bond_start = t]

withdraw_early(e, amount) ==
    LET st == e.storage IN
    IF ~st.bond.some THEN Panic(st, "NoBond")
    ELSE LET b == st.bond.v
             available == checked_sub_i128(b.bonded_amount, b.slashed_amount)
         IN  IF ~available.some THEN Panic(st, "InvariantViolation")
             ELSE IF amount > available.v THEN Panic(st, "InsufficientBalance")
             ELSE LET end == saturating_add_u64(b.bond_start, b.bond_duration) IN
                  IF e.timestamp >= end THEN Panic(st, "UseRegularWithdraw")
                  ELSE LET rest == checked_sub_i128(b.bonded_amount, amount) IN
                       IF ~rest.some THEN Panic(st, "Overflow")
                       ELSE IF b.slashed_amount > rest.v
                            THEN Panic(st, "InvariantViolation")
                       ELSE LET nb == [b EXCEPT !.bonded_amount = rest.v]
                            IN  Ok([st EXCEPT !.bond = Some(nb)], BondOf(nb))

request_withdrawal(e) ==
    LET st == e.storage IN
    IF ~st.bond.some THEN Panic(st, "NoBond")
    ELSE LET b == st.bond.v IN
         IF ~b.is_rolling THEN Panic(st, "NotRolling")
         ELSE IF b.withdrawal_requested_at # 0 THEN Panic(st, "AlreadyRequested")
         ELSE LET nb == [b EXCEPT !.withdrawal_requested_at = e.timestamp]
              IN  Ok([st EXCEPT !.bond = Some(nb)], BondOf(nb))

\* renew_if_rolling without the test of is_rolling
renew_if_rolling_any_bond(e) ==
    LET st == e.storage IN
    IF ~st.bond.some THEN Panic(st, "NoBond")
    ELSE LET b == st.bond.v IN
         IF ~is_period_ended(e.timestamp, b.bond_start, b.bond_duration)
         THEN Ok(st, BondOf(b))
         ELSE LET nb == apply_renewal(b, e.timestamp)
              IN  Ok([st EXCEPT !.bond = Some(nb)], BondOf(nb))

renew_if_rolling(e) ==
    LET st == e.storage IN
    IF ~st.bond.some THEN Panic(st, "NoBond")
    ELSE LET b == st.bond.v IN
         IF ~b.is_rolling THEN Ok(st, BondOf(b))
         ELSE IF ~is_period_ended(e.timestamp, b.bond_start, b.bond_duration)
              THEN Ok(st, BondOf(b))
         ELSE LET nb == apply_renewal(b, e.timestamp)
              IN  Ok([st EXCEPT !.bond = Some(nb)], BondOf(nb))

slash(e, amount) ==
    LET st == e.storage IN
    IF ~st.bond.some THEN Panic(st, "NoBond")
    ELSE LET b == st.bond.v
             new_slashed == checked_add_i128(b.slashed_amount, amount)
         IN  IF ~new_slashed.some THEN Panic(st, "Overflow")
             ELSE LET nb == [b EXCEPT !.slashed_amount =
                                 IF new_slashed.v > b.bonded_amount
                                 THEN b.bonded_amount ELSE new_slashed.v]
                  IN  Ok([st EXCEPT !.bond = Some(nb)], BondOf(nb))

\* top_up with a wrapping addition
top_up_wrapping(e, amount) ==
    LET st == e.storage IN
    IF ~st.bond.some THEN Panic(st, "NoBond")
    ELSE LET nb == [st.bond.v EXCEPT !.bonded_amount = WrapI128(@ + amount)]
         IN  Ok([st EXCEPT !.bond = Some(nb)], BondOf(nb))

top_up(e, amount) ==
    LET st == e.storage IN
    IF ~st.bond.some THEN Panic(st, "NoBond")
    ELSE LET b == st.bond.v
             sum == checked_add_i128(b.bonded_amount, amount)
         IN  IF ~sum.some THEN Panic(st, "Overflow")
             ELSE LET nb == [b EXCEPT !.bonded_amount = sum.v]
                  IN  Ok([st EXCEPT !.bond = Some(nb)], BondOf(nb))

extend_duration(e, additional_duration) ==
    LET st == e.storage IN
    IF ~st.bond.some THEN Panic(st, "NoBond")
    ELSE LET b == st.bond.v
             duration == checked_add_u64(b.bond_duration, additional_duration)
         IN  IF ~duration.some THEN Panic(st, "Overflow")
             ELSE IF ~checked_add_u64(b.bond_start, duration.v).some
                  THEN Panic(st, "Overflow")
             ELSE LET nb == [b EXCEPT !.bond_duration = duration.v]
                  IN  Ok([st EXCEPT !.bond = Some(nb)], BondOf(nb))

deposit_fees(e, amount) ==
    LET st == e.storage
        sum == add_i128(st.fees, amount)
    IN  IF sum.overflow /\ e.overflow_checks THEN Panic(st, "ArithmeticOverflow")
        ELSE Ok([st EXCEPT !.fees = sum.v], Unit)

(***************************************************************************)
(* Guarded entry points, up to the point where the callback is invoked:    *)
(* the outcome carries the storage as persisted before the interaction.    *)
(* What follows the callback is release_lock and the return of `ret`.      *)
(***************************************************************************)
\* withdraw_bond that leaves the active flag as it was
withdraw_bond_keeps_active(e, identity) ==
    LET acq == acquire_lock(e.storage) IN
    IF ~acq.ok THEN acq
    ELSE LET st == acq.st IN
         IF ~st.bond.some THEN Panic(st, "NoBond")
         ELSE LET b == st.bond.v IN
              IF b.identity # identity THEN Panic(release_lock(st), "NotOwner")
              ELSE IF ~b.active THEN Panic(release_lock(st), "NotActive")
              ELSE LET withdraw_amount == sub_i128(b.bonded_amount, b.slashed_amount) IN
                   IF withdraw_amount.overflow /\ e.overflow_checks
                   THEN Panic(st, "ArithmeticOverflow")
                   ELSE LET updated == [identity |-> identity,
                                        bonded_amount |-> 0,
                                        bond_start |-> b.bond_start,
                                        bond_duration |-> b.bond_duration,
                                        slashed_amount |-> b.slashed_amount,
                                        active |-> b.active,
                                        is_rolling |-> b.is_rolling,
                                        withdrawal_requested_at |-> b.withdrawal_requested_at,
                                        notice_period |-> b.notice_period]
                        IN  Ok([st EXCEPT !.bond = Some(updated)], IntOf(withdraw_amount.v))

withdraw_bond(e, identity) ==
    LET acq == acquire_lock(e.storage) IN
    IF ~acq.ok THEN acq
    ELSE LET st == acq.st IN
         IF ~st.bond.some THEN Panic(st, "NoBond")
         ELSE LET b == st.bond.v IN
              IF b.identity # identity THEN Panic(release_lock(st), "NotOwner")
              ELSE IF ~b.active THEN Panic(release_lock(st), "NotActive")
              ELSE LET withdraw_amount == sub_i128(b.bonded_amount, b.slashed_amount) IN
                   IF withdraw_amount.overflow /\ e.overflow_checks
                   THEN Panic(st, "ArithmeticOverflow")
                   ELSE LET updated == [identity |-> identity,
                                        bonded_amount |-> 0,
                                        bond_start |-> b.bond_start,
                                        bond_duration |-> b.bond_duration,
                                        slashed_amount |-> b.slashed_amount,
                                        active |-> FALSE,
                                        is_rolling |-> b.is_rolling,
                                        withdrawal_requested_at |-> b.withdrawal_requested_at,
                                        notice_period |-> b.notice_period]
                        IN  Ok([st EXCEPT !.bond = Some(updated)], IntOf(withdraw_amount.v))

slash_bond(e, a, slash_amount) ==
    LET acq == acquire_lock(e.storage) IN
    IF ~acq.ok THEN acq
    ELSE LET st == acq.st IN
         IF ~st.admin.some THEN Panic(st, "NoAdmin")
         ELSE IF st.admin.v # a THEN Panic(release_lock(st), "NotAdmin")
         ELSE IF ~st.bond.some THEN Panic(st, "NoBond")
         ELSE LET b == st.bond.v IN
              IF ~b.active THEN Panic(release_lock(st), "NotActive")
              ELSE LET new_slashed == add_i128(b.slashed_amount, slash_amount) IN
                   IF new_slashed.overflow /\ e.overflow_checks
                   THEN Panic(st, "ArithmeticOverflow")
                   ELSE IF new_slashed.v > b.bonded_amount
                        THEN Panic(release_lock(st), "SlashExceedsBond")
                   ELSE LET updated == [identity |-> b.identity,
                                        bonded_amount |-> b.bonded_amount,
                                        bond_start |-> b.bond_start,
                                        bond_duration |-> b.bond_duration,
                                        slashed_amount |-> new_slashed.v,
                                        active |-> b.active,
                                        is_rolling |-> b.is_rolling,
                                        withdrawal_requested_at |-> b.withdrawal_requested_at,
                                        notice_period |-> b.notice_period]
                        IN  Ok([st EXCEPT !.bond = Some(updated)], IntOf(new_slashed.v))

\* collect_fees that leaves the accumulator to be reset after the callback
collect_fees_late_reset(e, a) ==
    LET acq == acquire_lock(e.storage) IN
    IF ~acq.ok THEN acq
    ELSE LET st == acq.st IN
         IF ~st.admin.some THEN Panic(st, "NoAdmin")
         ELSE IF st.admin.v # a THEN Panic(release_lock(st), "NotAdmin")
         ELSE Ok(st, IntOf(st.fees))

collect_fees(e, a) ==
    LET acq == acquire_lock(e.storage) IN
    IF ~acq.ok THEN acq
    ELSE LET st == acq.st IN
         IF ~st.admin.some THEN Panic(st, "NoAdmin")
         ELSE IF st.admin.v # a THEN Panic(release_lock(st), "NotAdmin")
         ELSE Ok([st EXCEPT !.fees = 0], IntOf(st.fees))

(***************************************************************************)
(* Frames.  A call is one frame of the host: its storage writes are kept   *)
(* when it returns and discarded when it panics.  A guarded entry point    *)
(* with a registered callback stops inside invoke_contract (pc =           *)
(* "callback"); the callback contract may then call back into any entry    *)
(* point, and finally returns or panics.                                   *)
(***************************************************************************)
Commit(st) ==
    /\ admin' = st.admin
    /\ bond' = st.bond
    /\ config' = st.config
    /\ gov_members' = st.gov_members
    /\ slash_req' = st.slash_req
    /\ fees' = st.fees
    /\ locked' = st.locked
    /\ callback' = st.callback

Outcome(op, r) ==
    [op |-> op, ok |-> r.ok, err |-> r.err, ret |-> r.ret, inner |-> pc = "callback"]

NoOuter == [op |-> "", ret |-> NoRet, calls |-> 0]

CanCall == pc = "callback" => outer.calls < MaxInnerCalls

CountCall ==
    outer' = IF pc = "callback" THEN [outer EXCEPT !.calls = @ + 1] ELSE outer

\* an entry point that makes no external call
Invoke(op, r) ==
    /\ CanCall
    /\ IF r.ok THEN Commit(r.st) ELSE UNCHANGED storage_vars
    /\ last' = Outcome(op, r)
    /\ CountCall
    /\ UNCHANGED <<now, overflow_checks, pc, snapshot>>

\* a guarded entry point whose failure keeps the writes made before it
InvokeGuardedKeepingWrites(op, r) ==
    /\ CanCall
    /\ IF ~r.ok
       THEN /\ Commit(r.st)
            /\ last' = Outcome(op, r)
            /\ CountCall
            /\ UNCHANGED <<pc, snapshot>>
       ELSE IF r.st.callback.some /\ pc = "idle"
       THEN /\ Commit(r.st)
            /\ pc' = "callback"
            /\ outer' = [op |-> op, ret |-> r.ret, calls |-> 0]
            /\ snapshot' = Some(Storage)
            /\ UNCHANGED last
       ELSE /\ Commit(release_lock(r.st))
            /\ last' = Outcome(op, r)
            /\ CountCall
            /\ UNCHANGED <<pc, snapshot>>
    /\ UNCHANGED <<now, overflow_checks>>

\* a guarded entry point: r is its outcome up to the interaction
InvokeGuarded(op, r) ==
    /\ CanCall
    /\ IF ~r.ok
       THEN /\ UNCHANGED storage_vars
            /\ last' = Outcome(op, r)
            /\ CountCall
            /\ UNCHANGED <<pc, snapshot>>
       ELSE IF r.st.callback.some /\ pc = "idle"
       THEN /\ Commit(r.st)
            /\ pc' = "callback"
            /\ outer' = [op |-> op, ret |-> r.ret, calls |-> 0]
            /\ snapshot' = Some(Storage)
            /\ UNCHANGED last
       ELSE /\ Commit(release_lock(r.st))
            /\ last' = Outcome(op, r)
            /\ CountCall
            /\ UNCHANGED <<pc, snapshot>>
    /\ UNCHANGED <<now, overflow_checks>>

\* the callback returns: the guarded entry point releases the lock and returns
CallbackReturn ==
    /\ pc = "callback"
    /\ Commit(release_lock(Storage))
    /\ last' = [op |-> outer.op, ok |-> TRUE, err |-> "", ret |-> outer.ret, inner |-> FALSE]
    /\ pc' = "idle"
    /\ outer' = NoOuter
    /\ snapshot' = None
    /\ UNCHANGED <<now, overflow_checks>>

\* the callback panics (or lets the panic of a call it made propagate): the
\* whole guarded call fails and the host restores the storage of its entry
CallbackPanic ==
    /\ pc = "callback"
    /\ Commit(snapshot.v)
    /\ last' = [op |-> outer.op, ok |-> FALSE, err |-> "CallbackFailed", ret |-> NoRet,
                inner |-> FALSE]
    /\ pc' = "idle"
    /\ outer' = NoOuter
    /\ snapshot' = None
    /\ UNCHANGED <<now, overflow_checks>>

Tick ==
    /\ pc = "idle"
    /\ now < U64_MAX
    /\ now' = now + 1
    /\ UNCHANGED <<storage_vars, overflow_checks, pc, outer, snapshot, last>>

(***************************************************************************)
(* Entry points as actions.                                                *)
(***************************************************************************)
Initialize(a) == Invoke("initialize", initialize(Env, a))

InitializeWithGovernance(a, required, members) ==
    Invoke("initialize_with_governance", initialize_with_governance(Env, a, required, members))

SetGovernanceConfig(a, required, members) ==
    Invoke("set_governance_config", set_governance_config(Env, a, required, members))

SetCallback(addr) == Invoke("set_callback", set_callback(Env, addr))

CreateBond(identity, amount, duration, is_rolling, notice_period) ==
    Invoke("create_bond",
           create_bond_with_rolling(Env, identity, amount, duration, is_rolling, notice_period))

SubmitSlashRequest(requester, identity, amount, reason) ==
    /\ config.some => config.v.slash_request_counter < MaxCounter
    /\ Invoke("submit_slash_request",
              submit_slash_request(Env, requester, identity, amount, reason))

ApproveSlashRequest(approver) ==
    Invoke("approve_slash_request", approve_slash_request(Env, approver))

ExecuteSlash == Invoke("execute_slash", execute_slash(Env))

RejectSlashRequest == Invoke("reject_slash_request", reject_slash_request(Env))

DisputeSlashRequest(disputer, reason) ==
    Invoke("dispute_slash_request", dispute_slash_request(Env, disputer, reason))

ResolveDispute(resolve_approved) ==
    Invoke("resolve_dispute", resolve_dispute(Env, resolve_approved))

Withdraw(amount) == Invoke("withdraw", withdraw(Env, amount))

WithdrawEarly(amount) == Invoke("withdraw_early", withdraw_early(Env, amount))

RequestWithdrawal == Invoke("request_withdrawal", request_withdrawal(Env))

RenewIfRolling == Invoke("renew_if_rolling", renew_if_rolling(Env))

Slash(amount) == Invoke("slash", slash(Env, amount))

TopUp(amount) == Invoke("top_up", top_up(Env, amount))

ExtendDuration(additional_duration) ==
    Invoke("extend_duration", extend_duration(Env, additional_duration))

DepositFees(amount) == Invoke("deposit_fees", deposit_fees(Env, amount))

WithdrawBond(identity) == InvokeGuarded("withdraw_bond", withdraw_bond(Env, identity))

SlashBond(a, slash_amount) == InvokeGuarded("slash_bond", slash_bond(Env, a, slash_amount))

CollectFees(a) == InvokeGuarded("collect_fees", collect_fees(Env, a))

(***************************************************************************)
(* Initial state: a freshly registered contract with empty instance        *)
(* storage, under either build profile.                                    *)
(***************************************************************************)
Init ==
    /\ admin = None
    /\ bond = None
    /\ config = None
    /\ gov_members = None
    /\ slash_req = None
    /\ fees = 0
    /\ locked = FALSE
    /\ callback = None
    /\ now = 0
    /\ overflow_checks \in BOOLEAN
    /\ pc = "idle"
    /\ outer = NoOuter
    /\ snapshot = None
    /\ last = [op |-> "", ok |-> TRUE, err |-> "", ret |-> NoRet, inner |-> FALSE]

(***************************************************************************)
(* SpecBond, SpecBondSigned: the arithmetic of the bond under every entry  *)
(* point that writes it, with a two-member quorum feeding execute_slash.   *)
(* No callback is registered, so a guarded entry point runs to its return  *)
(* in one step.  SpecBond draws positive amounts only; SpecBondSigned also *)
(* draws a negative amount, which no entry point rejects.                  *)
(***************************************************************************)
PositiveAmounts == {1, I128_MAX}
Amounts == {-1, 1, I128_MAX}

NextBondOver(amounts) ==
    \/ InitializeWithGovernance("A", 2, <<"A", "B">>)
    \/ \E amt \in amounts, d \in {0, 1} : CreateBond("A", amt, d, FALSE, 0)
    \/ \E amt \in PositiveAmounts : SubmitSlashRequest("A", "A", amt, "fraud")
    \/ ApproveSlashRequest("B")
    \/ ExecuteSlash
    \/ \E amt \in amounts : Withdraw(amt)
    \/ \E amt \in amounts : WithdrawEarly(amt)
    \/ RequestWithdrawal
    \/ RenewIfRolling
    \/ \E amt \in amounts : Slash(amt)
    \/ \E amt \in amounts : TopUp(amt)
    \/ ExtendDuration(U64_MAX)
    \/ \E i \in {"A", "B"} : WithdrawBond(i)
    \/ \E a \in {"A", "C"}, amt \in amounts : SlashBond(a, amt)

NextBond == NextBondOver(PositiveAmounts)
NextBondSigned == NextBondOver(Amounts)

SpecBond == Init /\ [][NextBond]_vars
SpecBondSigned == Init /\ [][NextBondSigned]_vars

(***************************************************************************)
(* SpecGov: the slash-request state machine under every governance entry   *)
(* point, with the quorum and the member list reconfigurable, over one     *)
(* bond.                                                                   *)
(***************************************************************************)
MemberLists == {<<"A", "B">>, <<"A", "B", "C">>}
Required == 1..3

NextGov ==
    \/ \E r \in Required, m \in MemberLists : InitializeWithGovernance("A", r, m)
    \/ \E a \in {"A", "C"}, r \in Required, m \in MemberLists : SetGovernanceConfig(a, r, m)
    \/ CreateBond("A", I128_MAX, 1, FALSE, 0)
    \/ \E r \in {"A", "C"} : SubmitSlashRequest(r, "A", 1, "fraud")
    \/ \E a \in Addr : ApproveSlashRequest(a)
    \/ ExecuteSlash
    \/ RejectSlashRequest
    \/ \E a \in {"A", "C"} : DisputeSlashRequest(a, "appeal")
    \/ \E b \in BOOLEAN : ResolveDispute(b)

SpecGov == Init /\ [][NextGov]_vars

(***************************************************************************)
(* SpecTime: the bond lifecycle under a ledger clock that advances, with   *)
(* fixed-term and rolling bonds, and the admin's direct slash and the full *)
(* withdrawal with no callback registered.                                 *)
(***************************************************************************)
Durations == {0, 1, U64_MAX}

NextTime ==
    \/ Tick
    \/ Initialize("A")
    \/ \E amt \in PositiveAmounts, d \in Durations, r \in BOOLEAN :
          CreateBond("A", amt, d, r, 1)
    \/ \E amt \in PositiveAmounts : Withdraw(amt)
    \/ \E amt \in PositiveAmounts : WithdrawEarly(amt)
    \/ RequestWithdrawal
    \/ RenewIfRolling
    \/ \E amt \in PositiveAmounts : Slash(amt)
    \/ TopUp(1)
    \/ \E d \in {1, U64_MAX} : ExtendDuration(d)
    \/ WithdrawBond("A")
    \/ \E amt \in PositiveAmounts : SlashBond("A", amt)

SpecTime == Init /\ [][NextTime]_vars

(***************************************************************************)
(* SpecCreate: creation and replacement of the bond under an advancing     *)
(* clock, next to a slash request on its way through governance.           *)
(***************************************************************************)
NextCreate ==
    \/ Tick
    \/ InitializeWithGovernance("A", 2, <<"A", "B">>)
    \/ \E amt \in PositiveAmounts, r \in BOOLEAN : CreateBond("A", amt, 1, r, 1)
    \/ SubmitSlashRequest("A", "A", 1, "fraud")
    \/ ApproveSlashRequest("B")
    \/ ExecuteSlash
    \/ RequestWithdrawal

SpecCreate == Init /\ [][NextCreate]_vars

(***************************************************************************)
(* SpecTarget: bonds of two identities and governed slash requests         *)
(* against either of them.                                                 *)
(***************************************************************************)
Identities == {"A", "B"}

NextTarget ==
    \/ InitializeWithGovernance("A", 2, <<"A", "B">>)
    \/ \E i \in Identities, amt \in PositiveAmounts : CreateBond(i, amt, 1, FALSE, 0)
    \/ \E i \in Identities : SubmitSlashRequest("A", i, 1, "fraud")
    \/ ApproveSlashRequest("B")
    \/ ExecuteSlash

SpecTarget == Init /\ [][NextTarget]_vars

(***************************************************************************)
(* SpecQuorum: one slash request on its way to quorum.  Governance is set  *)
(* up before the request is submitted and nothing but approvals follows    *)
(* the submit; every address keeps calling approve_slash_request as long   *)
(* as its call changes anything.                                           *)
(***************************************************************************)
QuorumMemberLists == {<<"A">>, <<"A", "B">>, <<"A", "B", "C">>}

NextQuorum ==
    \/ \E r \in Required, m \in QuorumMemberLists :
          slash_req = None /\ InitializeWithGovernance("A", r, m)
    \/ \E r \in {"A", "C"} :
          slash_req = None /\ SubmitSlashRequest(r, "A", 1, "fraud")
    \/ \E a \in Addr : ApproveSlashRequest(a)

SpecQuorum ==
    /\ Init
    /\ [][NextQuorum]_vars
    /\ \A a \in Addr : WF_vars(ApproveSlashRequest(a))

(***************************************************************************)
(* SpecGuard: the guarded entry points with a callback contract that may   *)
(* call back into the contract before it returns or panics.                *)
(***************************************************************************)
NextGuard ==
    \/ \E a \in {"A", "C"} : Initialize(a)
    \/ SetCallback("CB")
    \/ \E amt \in PositiveAmounts : CreateBond("A", amt, 1, FALSE, 0)
    \/ TopUp(1)
    \/ DepositFees(1)
    \/ \E i \in {"A", "B"} : WithdrawBond(i)
    \/ \E a \in {"A", "C"}, amt \in PositiveAmounts : SlashBond(a, amt)
    \/ \E a \in {"A", "C"} : CollectFees(a)
    \/ CallbackReturn
    \/ CallbackPanic

SpecGuard == Init /\ [][NextGuard]_vars

(***************************************************************************)
(* SpecNested: the guarded entry points with a callback contract that      *)
(* calls the unguarded entry points while the lock is held.                *)
(***************************************************************************)
NextNested ==
    \/ InitializeWithGovernance("A", 2, <<"A", "B">>)
    \/ SetCallback("CB")
    \/ \E amt \in PositiveAmounts : CreateBond("A", amt, 1, FALSE, 0)
    \/ TopUp(1)
    \/ Withdraw(1)
    \/ WithdrawEarly(1)
    \/ ExtendDuration(1)
    \/ SubmitSlashRequest("A", "A", 1, "fraud")
    \/ ApproveSlashRequest("B")
    \/ ExecuteSlash
    \/ WithdrawBond("A")
    \/ \E amt \in PositiveAmounts : SlashBond("A", amt)
    \/ CallbackReturn
    \/ CallbackPanic

SpecNested == Init /\ [][NextNested]_vars

(***************************************************************************)
(* Properties.                                                             *)
(***************************************************************************)

\* C1: whatever operations have been applied, the stored bond satisfies
\* 0 <= slashed_amount <= bonded_amount.
C1_SlashedWithinBonded ==
    bond.some =>
        /\ 0 <= bond.v.slashed_amount
        /\ bond.v.slashed_amount <= bond.v.bonded_amount

\* C2: a stored bond with slashed_amount = bonded_amount is not active; in
\* particular a bond whose whole available balance has been withdrawn
\* (bonded_amount - slashed_amount = 0) is not active.
C2_InactiveWhenExhausted ==
    (bond.some /\ bond.v.slashed_amount = bond.v.bonded_amount) => ~bond.v.active

\* C6: executing an Approved request whose amount exceeds the remaining
\* balance bonded_amount - slashed_amount never fails and leaves the bond
\* with slashed_amount = bonded_amount and active = FALSE.
C6_GovernedSlashCaps ==
    [][(/\ slash_req.some
        /\ slash_req.v.status = "Approved"
        /\ bond.some
        /\ slash_req.v.amount > bond.v.bonded_amount - bond.v.slashed_amount
        /\ ExecuteSlash)
       => (/\ last'.ok
           /\ bond'.v.slashed_amount = bond'.v.bonded_amount
           /\ ~bond'.v.active)]_vars

\* C7: on a stored bond and with a configured admin, slash_bond(a, amount)
\* called outside any callback fails with NotAdmin for a caller other than
\* the admin, with NotActive on an inactive bond and with SlashExceedsBond
\* when slashed_amount + amount > bonded_amount, each time leaving the bond
\* unchanged; otherwise it returns slashed_amount + amount and stores it,
\* changing no other field.
SlashBondAsClaimed(a, amount) ==
    IF a # admin.v
    THEN ~last'.ok /\ last'.err = "NotAdmin" /\ bond' = bond
    ELSE IF ~bond.v.active
    THEN ~last'.ok /\ last'.err = "NotActive" /\ bond' = bond
    ELSE IF bond.v.slashed_amount + amount > bond.v.bonded_amount
    THEN ~last'.ok /\ last'.err = "SlashExceedsBond" /\ bond' = bond
    ELSE /\ last'.ok
         /\ last'.ret = IntOf(bond.v.slashed_amount + amount)
         /\ bond' = Some([bond.v EXCEPT !.slashed_amount = @ + amount])

C7_SlashBondRejectsExcess ==
    [][\A a \in Addr, amount \in Amounts :
          (pc = "idle" /\ admin.some /\ bond.some /\ SlashBond(a, amount))
          => SlashBondAsClaimed(a, amount)]_vars

\* C3: a guarded entry point called while the lock is held, from inside the
\* callback of another guarded call, fails with ReentrancyDetected and
\* leaves the bond, the fee accumulator and the slash request as they were.
C3_ReentrantCallRejected ==
    [][\A a \in Addr, amount \in Amounts :
          (/\ pc = "callback"
           /\ last'.op \in {"withdraw_bond", "slash_bond", "collect_fees"}
           /\ last'.inner
           /\ (WithdrawBond(a) \/ SlashBond(a, amount) \/ CollectFees(a)))
          => (/\ ~last'.ok
              /\ last'.err = "ReentrancyDetected"
              /\ bond' = bond
              /\ fees' = fees
              /\ slash_req' = slash_req
              /\ locked')]_vars

\* a reentrant withdraw_bond has just been rejected inside the callback of
\* withdraw_bond, whose effects (bonded_amount = 0, inactive) stand
C3_Witness ==
    /\ pc = "callback"
    /\ outer.op = "withdraw_bond"
    /\ last.inner
    /\ last.op = "withdraw_bond"
    /\ last.err = "ReentrancyDetected"
    /\ locked
    /\ bond.v.bonded_amount = 0
    /\ ~bond.v.active

\* C4: outside a guarded call the lock is free, whichever way the last
\* guarded call ended, and no call made outside a callback is rejected
\* with ReentrancyDetected.
C4_LockFreeWhenIdle ==
    /\ pc = "idle" => ~locked
    /\ ~last.inner => last.err # "ReentrancyDetected"

\* slash_bond has just failed with SlashExceedsBond and the lock is free
C4_Witness ==
    /\ pc = "idle"
    /\ last.op = "slash_bond"
    /\ last.err = "SlashExceedsBond"
    /\ ~locked

\* C5: when a guarded entry point enters its callback the lock is held and
\* its new state is stored (withdraw_bond: bonded_amount = 0 and inactive;
\* slash_bond: the new slashed_amount, the sum it computed and returns;
\* collect_fees: accumulator 0 and the old accumulator as the result);
\* when the callback returns, the entry point changes only the lock.
EffectsCommitted ==
    /\ locked'
    /\ outer'.op = "withdraw_bond" =>
          /\ bond'.v.bonded_amount = 0
          /\ ~bond'.v.active
    /\ outer'.op = "slash_bond" =>
          /\ IntOf(bond'.v.slashed_amount) = outer'.ret
          /\ bond' = Some([bond.v EXCEPT !.slashed_amount = bond'.v.slashed_amount])
    /\ outer'.op = "collect_fees" =>
          /\ fees' = 0
          /\ outer'.ret = IntOf(fees)

RequiredApprovals == IF config.some THEN config.v.required_approvals ELSE 0

QuorumMet ==
    (slash_req.some /\ slash_req.v.status = "Approved") =>
        (config.some /\ Len(slash_req.v.approvals) >= config.v.required_approvals)

\* C8 (as stated): in every reachable state, governance-config updates
\* included, a stored request whose status is Approved has
\* approvals.len() >= the configured required_approvals.
C8_ApprovedHasQuorum == QuorumMet

\* C8 (amended): every operation that leaves required_approvals as it was
\* establishes or keeps approvals.len() >= required_approvals for a request
\* whose status is Approved, so a request becomes Approved only at quorum.
C8_ApprovedOnlyAtQuorum ==
    [][(QuorumMet /\ RequiredApprovals' = RequiredApprovals) => QuorumMet']_vars

\* approve has just taken the request to Approved with exactly the quorum
C8_Witness ==
    /\ last.op = "approve_slash_request"
    /\ last.ret = BoolOf(TRUE)
    /\ slash_req.v.status = "Approved"
    /\ Len(slash_req.v.approvals) = 2
    /\ config.v.required_approvals = 2

\* C9: in every reachable state a stored request whose status is Pending has
\* approvals.len() < required_approvals, also right after submit and after
\* resolve.
C9_PendingBelowQuorum ==
    (slash_req.some /\ slash_req.v.status = "Pending") =>
        (config.some /\ Len(slash_req.v.approvals) < config.v.required_approvals)

\* C10: approve by a member already in approvals of a Pending request returns
\* false and changes neither approvals nor status; no approve shortens
\* approvals; an approve by a member not yet in approvals appends exactly that
\* address and returns true iff the status is Approved after the call.
ApproveAsClaimed(approver) ==
    /\ slash_req'.some /\ Len(slash_req'.v.approvals) >= Len(slash_req.v.approvals)
    /\ (/\ is_governance_member(Storage, approver)
        /\ slash_req.v.status = "Pending"
        /\ Contains(slash_req.v.approvals, approver))
       => (last'.ok /\ last'.ret = BoolOf(FALSE) /\ slash_req' = slash_req)
    /\ (last'.ok /\ ~Contains(slash_req.v.approvals, approver))
       => (/\ slash_req'.v.approvals = Append(slash_req.v.approvals, approver)
           /\ slash_req'.v.status \in {"Pending", "Approved"}
           /\ [slash_req'.v EXCEPT !.approvals = slash_req.v.approvals, !.status = "Pending"]
                 = slash_req.v
           /\ (last'.ret = BoolOf(TRUE)) <=> (slash_req'.v.status = "Approved")
           /\ last'.ret \in {BoolOf(TRUE), BoolOf(FALSE)})

Submitted == last'.op = "submit_slash_request" /\ last'.ok

StatusEdge(from, to, op) ==
    \/ from = to
    \/ from = "Pending" /\ to = "Approved" /\ op = "approve_slash_request"
    \/ from = "Approved" /\ to = "Executed" /\ op = "execute_slash"
    \/ from = "Pending" /\ to = "Rejected" /\ op = "reject_slash_request"
    \/ from \in {"Pending", "Approved"} /\ to = "Disputed" /\ op = "dispute_slash_request"
    \/ from = "Disputed" /\ to \in {"Approved", "Pending", "Rejected"} /\ op = "resolve_dispute"

TerminalAsClaimed ==
    /\ slash_req' = slash_req
    /\ last'.op = "approve_slash_request" =>
          /\ ~last'.ok
          /\ \A a \in Addr : (is_governance_member(Storage, a) /\ ApproveSlashRequest(a))
                                => last'.err = "NotPending"
    /\ last'.op = "dispute_slash_request" =>
          /\ ~last'.ok
          /\ \A a \in Addr : (is_governance_member(Storage, a) /\ DisputeSlashRequest(a, "appeal"))
                                => last'.err = "InvalidState"
    /\ last'.op = "execute_slash" => (~last'.ok /\ last'.err = "NotApproved")

\* C11: the status of a stored request changes only along Pending->Approved
\* (approve), Approved->Executed (execute), Pending->Rejected (reject),
\* {Pending, Approved}->Disputed (dispute) and Disputed->{Approved, Pending,
\* Rejected} (resolve); once it is Executed or Rejected, approve fails with
\* NotPending, dispute with InvalidState, execute with NotApproved, and no
\* operation on it changes anything of the request.
C11_StatusMachine ==
    [][(slash_req.some /\ ~Submitted) =>
          /\ slash_req'.some
          /\ StatusEdge(slash_req.v.status, slash_req'.v.status, last'.op)
          /\ slash_req.v.status \in {"Executed", "Rejected"} => TerminalAsClaimed]_vars

\* a governance member's approve of an Executed request has just failed
C11_Witness ==
    /\ slash_req.some
    /\ slash_req.v.status = "Executed"
    /\ last.op = "approve_slash_request"
    /\ last.err = "NotPending"

\* C12: execute_slash on a request whose status is Pending, Disputed,
\* Rejected or Executed fails with NotApproved and leaves the bond and the
\* request as they were.
C12_ExecuteNeedsApproved ==
    [][(/\ slash_req.some
        /\ slash_req.v.status \in {"Pending", "Disputed", "Rejected", "Executed"}
        /\ last'.op = "execute_slash"
        /\ ExecuteSlash)
       => (/\ ~last'.ok
           /\ last'.err = "NotApproved"
           /\ bond' = bond
           /\ slash_req' = slash_req)]_vars

\* execute_slash has just failed on a request under dispute, a bond existing
C12_Witness ==
    /\ slash_req.some
    /\ slash_req.v.status = "Disputed"
    /\ bond.some
    /\ last.op = "execute_slash"
    /\ last.err = "NotApproved"

Min(a, b) == IF a <= b THEN a ELSE b

ExecuteAsClaimed ==
    LET b == bond.v
        sum == b.slashed_amount + slash_req.v.amount
        new_slashed == Min(sum, b.bonded_amount)
    IN  /\ bond'.v.slashed_amount = new_slashed
        /\ [bond'.v EXCEPT !.active = b.active] = [b EXCEPT !.slashed_amount = new_slashed]
        /\ sum < b.bonded_amount => bond'.v.active = b.active
        /\ slash_req' = Some([slash_req.v EXCEPT !.status = "Executed"])
        /\ last'.ret = BondOf(bond'.v)

\* C13: a successful execute_slash stores slashed_amount =
\* min(slashed_amount + request.amount, bonded_amount), leaves bonded_amount
\* and the other fields of the bond unchanged (active too, unless the cap is
\* reached) and sets the request's status to Executed, its other fields
\* unchanged.
C13_ExecuteAppliesCappedSlash ==
    [][(/\ slash_req.some
        /\ bond.some
        /\ last'.op = "execute_slash"
        /\ last'.ok
        /\ ExecuteSlash)
       => ExecuteAsClaimed]_vars

\* the guarded call of this step has passed its effects step: it has returned,
\* or it is inside its callback with its result computed
EffectsDone == pc' = "callback" \/ last'.ok

EffectsResult == IF pc' = "callback" THEN outer'.ret ELSE last'.ret

WithdrawBondAsClaimed(identity) ==
    IF identity # bond.v.identity
    THEN ~EffectsDone /\ last'.err = "NotOwner" /\ bond' = bond
    ELSE IF ~bond.v.active
    THEN ~EffectsDone /\ last'.err = "NotActive" /\ bond' = bond
    ELSE EffectsDone =>
            /\ EffectsResult = IntOf(bond.v.bonded_amount - bond.v.slashed_amount)
            /\ bond' = Some([bond.v EXCEPT !.bonded_amount = 0, !.active = FALSE])

\* C14: withdraw_bond(identity) fails with NotOwner unless identity owns the
\* bond and with NotActive unless the bond is active; when it succeeds it
\* returns bonded_amount - slashed_amount and stores bonded_amount = 0 and
\* active = false, every other field of the bond as before.
C14_WithdrawBondEffects ==
    [][\A identity \in Addr :
          (pc = "idle" /\ bond.some /\ WithdrawBond(identity))
          => WithdrawBondAsClaimed(identity)]_vars

ResolveAsClaimed(resolve_approved) ==
    IF slash_req.v.status # "Disputed"
    THEN ~last'.ok /\ last'.err = "NotDisputed" /\ slash_req' = slash_req
    ELSE LET status ==
                 IF ~resolve_approved THEN "Rejected"
                 ELSE IF Len(slash_req.v.approvals) >= config.v.required_approvals
                 THEN "Approved" ELSE "Pending"
         IN  /\ last'.ok
             /\ last'.ret = StatusOf(status)
             /\ slash_req' = Some([slash_req.v EXCEPT !.status = status, !.disputed = FALSE])

\* C15: resolve_dispute fails with NotDisputed unless the status is Disputed;
\* resolve(true) gives Approved iff approvals.len() >= required_approvals and
\* Pending otherwise, resolve(false) gives Rejected; disputed becomes false and
\* nothing else of the request changes.
C15_ResolveReevaluatesQuorum ==
    [][\A resolve_approved \in BOOLEAN :
          (/\ slash_req.some
           /\ last'.op = "resolve_dispute"
           /\ ResolveDispute(resolve_approved))
          => ResolveAsClaimed(resolve_approved)]_vars

\* submit, approve to the quorum of 2, dispute, resolve(true): Approved again
C15_Witness ==
    /\ last.op = "resolve_dispute"
    /\ last.ret = StatusOf("Approved")
    /\ slash_req.v.status = "Approved"
    /\ ~slash_req.v.disputed
    /\ slash_req.v.dispute_reason = "appeal"
    /\ Len(slash_req.v.approvals) = 2
    /\ config.v.required_approvals = 2

SubmitAsClaimed(requester, identity, amount, reason) ==
    IF ~is_governance_member(Storage, requester)
    THEN /\ ~last'.ok
         /\ last'.err = "NotGovernanceMember"
         /\ config' = config
         /\ slash_req' = slash_req
    ELSE LET id == config.v.slash_request_counter + 1 IN
         /\ last'.ok
         /\ last'.ret = IntOf(id)
         /\ config' = Some([config.v EXCEPT !.slash_request_counter = id])
         /\ slash_req'.some
         /\ slash_req'.v.id = id
         /\ slash_req'.v.status = "Pending"
         /\ ~slash_req'.v.disputed
         /\ slash_req'.v.approvals = <<requester>>
         /\ slash_req'.v.requester = requester
         /\ slash_req'.v.identity = identity
         /\ slash_req'.v.amount = amount
         /\ slash_req'.v.reason = reason

C17_IdsMonotonic ==
    [][/\ Submitted =>
             IF slash_req.some
             THEN slash_req'.v.id > slash_req.v.id
             ELSE slash_req'.v.id = 1
       /\ (config.some /\ config'.some) =>
             config'.v.slash_request_counter >= config.v.slash_request_counter]_vars

\* C18: reject on a stored request fails with NotPending, the request
\* unchanged, unless the status is Pending; then the status becomes Rejected,
\* nothing else of the request changes, and in both cases the bond is
\* untouched.
C18_RejectOnlyPending ==
    [][(slash_req.some /\ last'.op = "reject_slash_request" /\ RejectSlashRequest)
       => /\ bond' = bond
          /\ IF slash_req.v.status # "Pending"
             THEN ~last'.ok /\ last'.err = "NotPending" /\ slash_req' = slash_req
             ELSE /\ last'.ok
                  /\ last'.ret = StatusOf("Rejected")
                  /\ slash_req' = Some([slash_req.v EXCEPT !.status = "Rejected"])]_vars

\* a Pending request with two approvals has just been rejected, a bond existing
C18_Witness ==
    /\ last.op = "reject_slash_request"
    /\ last.ok
    /\ slash_req.v.status = "Rejected"
    /\ Len(slash_req.v.approvals) = 2
    /\ bond.some

TopUpThenWithdraw(b, c) ==
    LET r1 == top_up(Env, b) IN
    r1.ok =>
        LET r2 == withdraw([Env EXCEPT !.storage = r1.st], c) IN
        /\ c <= bond.v.bonded_amount + b - bond.v.slashed_amount =>
              /\ r2.ok
              /\ r2.st.bond = Some([bond.v EXCEPT !.bonded_amount = @ + b - c])
              /\ r2.ret = BondOf(r2.st.bond.v)
        /\ c = b => (r2.ok /\ r2.st.bond = bond)

\* C20: on a bond with bonded_amount a, a successful top_up(b) followed by
\* withdraw(c) with c <= a + b - slashed_amount leaves bonded_amount =
\* a + b - c and nothing else changed; a successful top_up(x) followed by
\* withdraw(x) leaves the bond as it was.
C20_TopUpWithdraw ==
    bond.some => \A b \in PositiveAmounts, c \in PositiveAmounts : TopUpThenWithdraw(b, c)

WithdrawEarlyAsClaimed(amount) ==
    IF now < bond.v.bond_start + bond.v.bond_duration
    THEN /\ last'.ok
         /\ bond' = Some([bond.v EXCEPT !.bonded_amount = @ - amount])
         /\ last'.ret = BondOf(bond'.v)
    ELSE /\ ~last'.ok
         /\ last'.err = "UseRegularWithdraw"
         /\ bond' = bond

\* C21: withdraw_early(amount) with amount <= bonded_amount - slashed_amount
\* succeeds iff now < bond_start + bond_duration, and then takes the full
\* amount off bonded_amount and changes nothing else; from bond_start +
\* bond_duration on it fails with UseRegularWithdraw, the bond unchanged.
C21_EarlyExitTiming ==
    [][\A amount \in PositiveAmounts :
          (/\ bond.some
           /\ amount <= bond.v.bonded_amount - bond.v.slashed_amount
           /\ last'.op = "withdraw_early"
           /\ WithdrawEarly(amount))
          => WithdrawEarlyAsClaimed(amount)]_vars

\* C22: in every reachable state the approvals list of the stored slash
\* request holds no address twice and holds the requester.
C22_ApprovalsDistinctWithRequester ==
    slash_req.some =>
        LET approvals == slash_req.v.approvals IN
        /\ \A i, j \in 1..Len(approvals) : approvals[i] = approvals[j] => i = j
        /\ Contains(approvals, slash_req.v.requester)

\* a second member has approved and then approved once more
C22_Witness ==
    /\ last.op = "approve_slash_request"
    /\ last.ok
    /\ last.ret = BoolOf(FALSE)
    /\ slash_req.v.status = "Pending"
    /\ Len(slash_req.v.approvals) = 2
    /\ slash_req.v.approvals[1] = slash_req.v.requester

\* the bond the governed path stores for the same bond and amount
GovernedSlashOf(amount) ==
    LET approved == Some([slash_req.v EXCEPT !.status = "Approved", !.amount = amount])
    IN  execute_slash([Env EXCEPT !.storage.slash_req = approved])

SlashAsClaimed(amount) ==
    LET b == bond.v
        sum == b.slashed_amount + amount
    IN  /\ bond'.v.slashed_amount = Min(sum, b.bonded_amount)
        /\ sum >= b.bonded_amount => ~bond'.v.active
        /\ GovernedSlashOf(amount).ok
        /\ bond' = GovernedSlashOf(amount).st.bond

\* C23: a successful slash(amount) stores slashed_amount =
\* min(slashed_amount + amount, bonded_amount), sets active = FALSE when the
\* cap is reached, and stores exactly the bond that execute_slash stores for
\* the same bond and amount.
C23_SlashMatchesGoverned ==
    [][\A amount \in PositiveAmounts :
          (/\ bond.some
           /\ slash_req.some
           /\ last'.op = "slash"
           /\ last'.ok
           /\ Slash(amount))
          => SlashAsClaimed(amount)]_vars

SlashingOps == {"slash", "slash_bond", "execute_slash"}

\* C24: on a stored bond, a successful slash, slash_bond or execute_slash
\* never lowers slashed_amount, whatever operations came before it.
C24_SlashedNeverDecreases ==
    [][(/\ bond.some
        /\ last'.op \in SlashingOps
        /\ last'.ok)
       => bond'.v.slashed_amount >= bond.v.slashed_amount]_vars

WithdrawAsClaimed(amount) ==
    IF amount > bond.v.bonded_amount - bond.v.slashed_amount
    THEN /\ ~last'.ok
         /\ last'.err = "InsufficientBalance"
         /\ bond' = bond
    ELSE /\ last'.ok
         /\ bond' = Some([bond.v EXCEPT !.bonded_amount = @ - amount])
         /\ bond'.v.bonded_amount - bond'.v.slashed_amount >= 0

\* C25: on a stored bond withdraw(amount) fails with InsufficientBalance,
\* the bond unchanged, exactly when amount > bonded_amount - slashed_amount;
\* otherwise it takes exactly amount off bonded_amount, changes no other
\* field, and leaves the available balance non-negative.
C25_WithdrawExact ==
    [][\A amount \in Amounts :
          (/\ bond.some
           /\ last'.op = "withdraw"
           /\ Withdraw(amount))
          => WithdrawAsClaimed(amount)]_vars

\* C26: no call fails with InvariantViolation: withdraw and withdraw_early
\* never fail because slashed_amount exceeds bonded_amount, neither in their
\* availability computation nor in their check after the subtraction.
C26_InvariantViolationUnreachable == last.err # "InvariantViolation"

LockFree == [Env EXCEPT !.storage.locked = FALSE]

SameOutcome(held, free) ==
    /\ held.ok = free.ok
    /\ held.err = free.err
    /\ held.ret = free.ret
    /\ [held.st EXCEPT !.locked = FALSE] = free.st

\* every unguarded entry point gives, with the lock held, the outcome it
\* gives with the lock free
UnguardedIgnoreLock ==
    /\ \A amt \in Amounts :
          /\ SameOutcome(top_up(Env, amt), top_up(LockFree, amt))
          /\ SameOutcome(withdraw(Env, amt), withdraw(LockFree, amt))
          /\ SameOutcome(withdraw_early(Env, amt), withdraw_early(LockFree, amt))
          /\ SameOutcome(create_bond(Env, "A", amt, 1), create_bond(LockFree, "A", amt, 1))
          /\ \A r \in Addr :
                SameOutcome(submit_slash_request(Env, r, "A", amt, "fraud"),
                            submit_slash_request(LockFree, r, "A", amt, "fraud"))
    /\ \A d \in 0..U64_MAX :
          SameOutcome(extend_duration(Env, d), extend_duration(LockFree, d))
    /\ \A a \in Addr :
          SameOutcome(approve_slash_request(Env, a), approve_slash_request(LockFree, a))
    /\ SameOutcome(execute_slash(Env), execute_slash(LockFree))

\* the invariants of the bond record
BondInvariants ==
    bond.some =>
        /\ 0 <= bond.v.slashed_amount
        /\ bond.v.slashed_amount <= bond.v.bonded_amount
        /\ InU64(bond.v.bond_start + bond.v.bond_duration)
        /\ bond.v.slashed_amount = bond.v.bonded_amount => ~bond.v.active

\* C27: an unguarded entry point called from the callback of a guarded one,
\* while the lock is held, has exactly the outcome it has with the lock free;
\* when the guarded call returns, what the inner call stored is still stored,
\* and the bond satisfies the invariants of the bond record.
C27_UnguardedUnderLock ==
    [][/\ (pc = "callback" /\ locked) => UnguardedIgnoreLock
       /\ (CallbackReturn /\ outer.calls > 0)
          => (/\ Storage' = [Storage EXCEPT !.locked = FALSE]
              /\ BondInvariants')]_vars

EndFits(b) == InU64(b.bond_start + b.bond_duration)

OverflowRejected ==
    /\ ~last'.ok
    /\ last'.err = "Overflow"
    /\ bond' = bond

\* C28: after every successful call that changes the bond (create_bond,
\* extend_duration, renew_if_rolling and the others) bond_start +
\* bond_duration fits u64; create_bond fails with Overflow when now +
\* duration does not fit, and extend_duration when bond_duration + the
\* extension or the new end does not fit, each leaving the stored bond
\* unchanged.
C28_EndTimestampFits ==
    [][/\ (last'.ok /\ bond'.some /\ bond' # bond) => EndFits(bond'.v)
       /\ \A amt \in PositiveAmounts, d \in Durations, r \in BOOLEAN :
             (/\ ~InU64(now + d)
              /\ last'.op = "create_bond"
              /\ CreateBond("A", amt, d, r, 1))
             => OverflowRejected
       /\ \A d \in 0..U64_MAX :
             (/\ bond.some
              /\ ~InU64(bond.v.bond_start + bond.v.bond_duration + d)
              /\ last'.op = "extend_duration"
              /\ ExtendDuration(d))
             => OverflowRejected]_vars

FreshBond(identity, amount, duration, is_rolling, notice_period) ==
    [identity |-> identity,
     bonded_amount |-> amount,
     bond_start |-> now,
     bond_duration |-> duration,
     slashed_amount |-> 0,
     active |-> TRUE,
     is_rolling |-> is_rolling,
     withdrawal_requested_at |-> 0,
     notice_period |-> notice_period]

DisputeAsClaimed(disputer, reason) ==
    IF ~is_governance_member(Storage, disputer)
    THEN ~last'.ok /\ last'.err = "NotGovernanceMember" /\ slash_req' = slash_req
    ELSE IF slash_req.v.status \notin {"Pending", "Approved"}
    THEN ~last'.ok /\ last'.err = "InvalidState" /\ slash_req' = slash_req
    ELSE /\ last'.ok
         /\ slash_req' = Some([slash_req.v EXCEPT !.disputed = TRUE,
                                                  !.dispute_reason = reason,
                                                  !.status = "Disputed"])

\* C30: on a stored request, dispute_slash_request fails with
\* NotGovernanceMember for a caller who is not a governance member, and for
\* a member fails with InvalidState unless the status is Pending or
\* Approved; on success it sets disputed, records the dispute reason and
\* sets the status to Disputed, leaving id, amount, identity, reason and
\* approvals as they were.
C30_DisputeEffects ==
    [][last'.op = "dispute_slash_request" =>
          \A disputer \in Addr :
             (slash_req.some /\ DisputeSlashRequest(disputer, "appeal"))
             => DisputeAsClaimed(disputer, "appeal")]_vars

\* an Approved request with two approvals has been disputed
C30_Witness ==
    /\ last.op = "dispute_slash_request"
    /\ last.ok
    /\ slash_req.v.status = "Disputed"
    /\ slash_req.v.disputed
    /\ slash_req.v.dispute_reason = "appeal"
    /\ Len(slash_req.v.approvals) = 2
    /\ config.v.required_approvals = 2

\* request_withdrawal called at ledger time t on the storage after the step
RepeatedRequestAt(t) ==
    request_withdrawal([storage |-> Storage', timestamp |-> t,
                        overflow_checks |-> overflow_checks])

RequestWithdrawalAsClaimed ==
    IF ~bond.v.is_rolling
    THEN ~last'.ok /\ last'.err = "NotRolling" /\ bond' = bond
    ELSE IF bond.v.withdrawal_requested_at # 0
    THEN ~last'.ok /\ last'.err = "AlreadyRequested" /\ bond' = bond
    ELSE /\ last'.ok
         /\ bond' = Some([bond.v EXCEPT !.withdrawal_requested_at = now])
         /\ last'.ret = BondOf(bond'.v)
         /\ \A t \in 0..U64_MAX :
               /\ ~RepeatedRequestAt(t).ok
               /\ RepeatedRequestAt(t).err = "AlreadyRequested"

\* C31: on a stored bond request_withdrawal fails with NotRolling when the
\* bond is not rolling and with AlreadyRequested when withdrawal_requested_at
\* is set; otherwise it stores the current time in withdrawal_requested_at
\* and changes no other field, and a second request_withdrawal on that bond
\* then fails with AlreadyRequested at every ledger time.
C31_RequestWithdrawalOnce ==
    [][(/\ last'.op = "request_withdrawal"
        /\ bond.some
        /\ RequestWithdrawal)
       => RequestWithdrawalAsClaimed]_vars

RenewAsClaimed ==
    LET b == bond.v IN
    /\ last'.ok
    /\ last'.ret = BondOf(bond'.v)
    /\ IF b.is_rolling /\ now >= b.bond_start + b.bond_duration
       THEN /\ bond'.v.bond_start = now
            /\ bond'.v.bonded_amount = b.bonded_amount
            /\ bond'.v.slashed_amount = b.slashed_amount
            /\ bond'.v.active = b.active
            /\ bond'.v.bond_duration = b.bond_duration
       ELSE bond' = bond

NoticeElapsed ==
    /\ bond.v.withdrawal_requested_at # 0
    /\ now >= bond.v.withdrawal_requested_at + bond.v.notice_period

\* C33: a rolling bond whose withdrawal has been requested and whose notice
\* period has elapsed is not renewed: renew_if_rolling leaves its bond_start
\* unchanged.
C33_NoRenewalAfterNotice ==
    [][(/\ last'.op = "renew_if_rolling"
        /\ bond.some
        /\ bond.v.is_rolling
        /\ NoticeElapsed
        /\ RenewIfRolling)
       => bond'.v.bond_start = bond.v.bond_start]_vars

CollectFeesAsClaimed(a) ==
    IF a # admin.v
    THEN ~EffectsDone /\ last'.err = "NotAdmin" /\ fees' = fees
    ELSE /\ EffectsDone
         /\ EffectsResult = IntOf(fees)
         /\ fees' = 0
         /\ pc' = "idle" => collect_fees(Env', a).ret = IntOf(0)

\* C34: the fee accumulator is the sum of the deposits since the last
\* collection: a successful deposit_fees(amount) adds exactly amount to it
\* and no other call but collect_fees changes it; collect_fees by the
\* configured admin returns the accumulator and stores 0, already when the
\* callback is invoked, so that a repeated collect_fees returns 0; a caller
\* other than the admin fails with NotAdmin, the accumulator unchanged.
C34_CollectReturnsDeposits ==
    [][/\ \A amount \in Amounts :
             (last'.op = "deposit_fees" /\ last'.ok /\ DepositFees(amount))
             => fees' = fees + amount
       /\ (pc = "idle" /\ last'.op \notin {"deposit_fees", "collect_fees"}
                       /\ outer'.op # "collect_fees")
             => fees' = fees
       /\ \A a \in Addr :
             (pc = "idle" /\ admin.some /\ CollectFees(a))
             => CollectFeesAsClaimed(a)]_vars

TopUpAsClaimed(amount) ==
    IF InI128(bond.v.bonded_amount + amount)
    THEN /\ last'.ok
         /\ bond' = Some([bond.v EXCEPT !.bonded_amount = @ + amount])
         /\ last'.ret = BondOf(bond'.v)
    ELSE /\ ~last'.ok
         /\ last'.err = "Overflow"
         /\ bond' = bond

\* C35: on a stored bond top_up(amount) stores bonded_amount + amount and
\* leaves slashed_amount, active and every other field unchanged; when the
\* sum is outside the signed 128-bit range it fails with Overflow and the
\* stored bond is unchanged.
C35_TopUpChecked ==
    [][last'.op = "top_up" =>
          \A amount \in Amounts :
             (bond.some /\ TopUp(amount)) => TopUpAsClaimed(amount)]_vars

\* a top-up of a bond at the top of the range has been refused
C35_Witness ==
    /\ last.op = "top_up"
    /\ last.err = "Overflow"
    /\ bond.some
    /\ bond.v.bonded_amount = I128_MAX
    /\ bond.v.slashed_amount = 1

\* C36: in every reachable state the stored request has disputed = TRUE
\* exactly when its status is Disputed.
C36_DisputedFlagMatchesStatus ==
    slash_req.some => (slash_req.v.disputed <=> slash_req.v.status = "Disputed")

\* a disputed request has been resolved against the slash
C36_Witness ==
    /\ last.op = "resolve_dispute"
    /\ last.ret = StatusOf("Rejected")
    /\ slash_req.v.status = "Rejected"
    /\ ~slash_req.v.disputed
    /\ slash_req.v.dispute_reason = "appeal"

\* C37: once a stored bond is inactive, no call other than create_bond
\* stores it active again (a call that fails stores nothing: the host
\* restores the bond of its entry); withdraw_bond by the owner deactivates
\* the bond, and called again on the inactive bond it fails with NotActive.
C37_InactiveStaysInactive ==
    [][/\ (/\ bond.some
           /\ ~bond.v.active
           /\ last'.op # "create_bond"
           /\ last'.ok)
          => (bond'.some /\ ~bond'.v.active)
       /\ (pc = "idle" /\ bond.some /\ WithdrawBond(bond.v.identity))
          => IF bond.v.active
             THEN EffectsDone => ~bond'.v.active
             ELSE ~EffectsDone /\ last'.err = "NotActive" /\ bond' = bond]_vars

\* the owner has called withdraw_bond a second time
C37_Witness ==
    /\ last.op = "withdraw_bond"
    /\ last.err = "NotActive"
    /\ pc = "idle"
    /\ bond.v.bonded_amount = 0
    /\ ~bond.v.active
    /\ callback.some

\* C38: a request slashes at most once: a successful execute_slash leaves the
\* request Executed; an Executed request stays as it is until a successful
\* submit replaces it; and execute_slash on an Executed request fails with
\* NotApproved, the bond and the request unchanged, also when the request
\* was disputed and resolved before it was executed.
C38_ExecutedOnce ==
    [][/\ (last'.op = "execute_slash" /\ last'.ok /\ ExecuteSlash)
          => slash_req'.v.status = "Executed"
       /\ (/\ slash_req.some
           /\ slash_req.v.status = "Executed"
           /\ ~(last'.op = "submit_slash_request" /\ last'.ok))
          => slash_req' = slash_req
       /\ (/\ last'.op = "execute_slash"
           /\ slash_req.some
           /\ slash_req.v.status = "Executed"
           /\ ExecuteSlash)
          => (/\ ~last'.ok
              /\ last'.err = "NotApproved"
              /\ bond' = bond)]_vars

\* a request that was disputed, resolved and executed is executed again
C38_Witness ==
    /\ last.op = "execute_slash"
    /\ last.err = "NotApproved"
    /\ slash_req.v.status = "Executed"
    /\ slash_req.v.dispute_reason = "appeal"
    /\ bond.some
    /\ bond.v.slashed_amount > 0

\* C39: a successful execute_slash changes slashed_amount only when the
\* stored bond belongs to the identity recorded in the executed request; a
\* bond of another identity, created after the request was submitted, is not
\* slashed by it.
C39_SlashHitsTargetOnly ==
    [][(/\ last'.op = "execute_slash"
        /\ last'.ok
        /\ ExecuteSlash
        /\ bond.v.identity # slash_req.v.identity)
       => bond'.v.slashed_amount = bond.v.slashed_amount]_vars

QuorumSatisfiable ==
    /\ config.some
    /\ gov_members.some
    /\ 1 <= config.v.required_approvals
    /\ config.v.required_approvals <= Len(gov_members.v)

\* C40: when 1 <= required_approvals <= number of governance members, a
\* submitted request that every governance member goes on to approve, with
\* no dispute, reject, new submit or configuration change in between,
\* eventually has status Approved.
C40_QuorumReachable ==
    (slash_req.some /\ slash_req.v.status = "Pending" /\ QuorumSatisfiable)
        ~> (slash_req.some /\ slash_req.v.status = "Approved")

====
